---- MODULE Spec2Model ----
(***************************************************************************)
(* checkmake: extract a project tarball into a working directory, run      *)
(* make, check README.txt and an optional target.  The module models       *)
(* checkmake.py: the Log class, path_is_parent, the four test_* stages,    *)
(* handle_args and main, with the file system, the archive and the make    *)
(* process as the environment.                                             *)
(***************************************************************************)
EXTENDS Integers, Sequences, FiniteSets, TLC

VARIABLES
    argv,           \* the command line: options and positional arguments
    opts,           \* the Options object handle_args returns
    pc,             \* position in main()
    cwd,            \* the process's current directory (absolute components)
    fs,             \* existing directories and files (absolute components)
    file_level,     \* Log.file_level
    console_level,  \* Log.console_level
    fileLog,        \* records written to the log file
    consoleLog,     \* records written to the console by Log.print
    logCalls,       \* every accepted call of Log.print, in order
    project_dir,    \* main's project_dir (None until test_tarball returns)
    stages,         \* the stage functions main has called, in call order
    ret,            \* what each stage function returned
    exitCode,       \* the process exit status, set when pc becomes "exited"
    original_cwd,   \* test_make's local original_cwd
    result,         \* test_make's local result (unbound until make has run)
    return_code,    \* test_make's local return_code
    capture,        \* outcome of writing the stdout/stderr capture files
    readme_stat,    \* what os.stat(README.txt) gave
    target_stat,    \* what os.stat(target) gave
    tar             \* the archive as tarfile found it (set by test_tarball)

vars == <<argv, opts, pc, cwd, fs, file_level, console_level, fileLog,
          consoleLog, logCalls, project_dir, stages, ret, exitCode,
          original_cwd, result, return_code, capture, readme_stat,
          target_stat, tar>>

---------------------------------------------------------------------------
(* Bounds of the model *)

\* longest working-directory argument, in path components
MaxPathLen == 2
\* largest exit code of make that is explored
MaxRC == 1
\* most Log.print calls in a run of the logger on its own
MaxMsgs == 2

---------------------------------------------------------------------------
(* Log levels *)

NONE    == 0
FATAL   == 1
ERROR   == 2
WARNING == 3
INFO    == 4
DEBUG   == 5
ALL     == 6

levels == <<"NONE", "FATAL", "ERROR", "WARNING", "INFO", "DEBUG", "ALL">>

\* Python's list.index is zero-based
LevelIsName(level_text) == \E i \in 1..Len(levels) : levels[i] = level_text
code_to_level(level_text) ==
    (CHOOSE i \in 1..Len(levels) : levels[i] = level_text) - 1

Msg(level, by, tag) == [level |-> level, by |-> by, tag |-> tag]

\* one sink of Log.print: the message is written when level <= threshold
LogPrintStrict(sink, threshold, msg) ==
    IF msg.level < threshold THEN Append(sink, msg) ELSE sink

LogPrint(sink, threshold, msg) ==
    IF msg.level <= threshold THEN Append(sink, msg) ELSE sink

RECURSIVE LogAll(_, _, _)
LogAll(sink, threshold, msgs) ==
    IF msgs = <<>> THEN sink
    ELSE LogAll(LogPrint(sink, threshold, Head(msgs)), threshold, Tail(msgs))

---------------------------------------------------------------------------
(* Paths.  A path argument is [abs, comps]; an absolute normalised path is *)
(* its sequence of components.                                             *)

Path(abs, comps) == [abs |-> abs, comps |-> comps]

None == [none |-> TRUE]

\* the directory the program is started in
CWD == <<"u">>

Comp == {".", "..", "u", "work"}

RECURSIVE SeqsUpTo(_, _)
SeqsUpTo(S, n) ==
    IF n = 0 THEN {<<>>}
    ELSE LET shorter == SeqsUpTo(S, n - 1)
         IN  shorter \cup {Append(s, c) : s \in shorter, c \in S}

PathArgs ==
    {Path(TRUE, s) : s \in SeqsUpTo(Comp, MaxPathLen)}
      \cup {Path(FALSE, s) : s \in SeqsUpTo(Comp, MaxPathLen) \ {<<>>}}

IsPrefix(p, q) == Len(p) <= Len(q) /\ SubSeq(q, 1, Len(p)) = p

\* os.path.normpath on the components of an absolute path
RECURSIVE NormInto(_, _)
NormInto(acc, comps) ==
    IF comps = <<>> THEN acc
    ELSE LET c == Head(comps)
         IN  IF c = "." THEN NormInto(acc, Tail(comps))
             ELSE IF c = ".."
                  THEN NormInto(IF acc = <<>> THEN acc
                                ELSE SubSeq(acc, 1, Len(acc) - 1), Tail(comps))
                  ELSE NormInto(Append(acc, c), Tail(comps))

abspath(p, dir) ==
    IF p.abs THEN NormInto(<<>>, p.comps) ELSE NormInto(dir, p.comps)

\* os.path.join of two paths: an absolute second path replaces the first
join(a, b) == IF b.abs THEN b ELSE Path(a.abs, a.comps \o b.comps)

\* os.path.commonpath of absolute paths: the longest common prefix
RECURSIVE CommonPrefix(_, _)
CommonPrefix(p, q) ==
    IF p = <<>> \/ q = <<>> \/ Head(p) # Head(q) THEN <<>>
    ELSE <<Head(p)>> \o CommonPrefix(Tail(p), Tail(q))

path_is_parent(parent_path, child_path, dir) ==
    LET parent_abs == abspath(parent_path, dir)
        child_abs  == abspath(child_path, dir)
    IN  CommonPrefix(parent_abs, parent_abs) = CommonPrefix(parent_abs, child_abs)

---------------------------------------------------------------------------
(* File system *)

\* what exists when the program starts: the working directory of an
\* earlier run with a file in it, a sibling, and a directory outside
Fs0 == { <<>>, <<"u">>, <<"u", "work">>, <<"u", "work", "old">>,
         <<"u", "keep">>, <<"work">> }

LastIsDot(p) == p.comps # <<>> /\ p.comps[Len(p.comps)] \in {".", ".."}

\* shutil.rmtree(p, ignore_errors=True): everything below p goes, and p
\* itself unless rmdir refuses the name (".", "..", "/")
rmtree(files, p, dir) ==
    LET a == abspath(p, dir)
    IN  {f \in files : ~IsPrefix(a, f)}
          \cup (IF LastIsDot(p) \/ a = <<>> THEN {a} \cap files ELSE {})

\* os.makedirs(p, exist_ok=True): p and every missing ancestor
makedirs(files, p, dir) ==
    LET a == abspath(p, dir)
    IN  files \cup {SubSeq(a, 1, n) : n \in 0..Len(a)}

---------------------------------------------------------------------------
(* Options and handle_args *)

WORKING_DIR == Path(FALSE, <<".", "work">>)

NoArg == [given |-> FALSE]

Options ==
    [ remove_work       |-> FALSE,
      preserve_work     |-> FALSE,
      log_level_file    |-> INFO,
      log_level_console |-> WARNING,
      working_dir       |-> Path(FALSE, <<>>),
      target            |-> "",
      tarball           |-> FALSE ]

\* level names tried on the command line ("" is: option not given)
LevelArgs == {"", "NONE", "ERROR", "DEBUG", "verbose"}

Targets == {"", "prog"}

Argvs ==
    [ x       : BOOLEAN,
      work    : PathArgs \cup {NoArg},
      target  : Targets,
      flog    : LevelArgs,
      clog    : LevelArgs,
      tarball : BOOLEAN ]

\* handle_args ends in sys.exit(1) for a bad level name or no tarball
ArgsAccepted(a) ==
    /\ a.flog = "" \/ LevelIsName(a.flog)
    /\ a.clog = "" \/ LevelIsName(a.clog)
    /\ a.tarball

handle_args(a) ==
    LET o0 == [Options EXCEPT !.working_dir = WORKING_DIR]
        o1 == IF a.x THEN [o0 EXCEPT !.preserve_work = FALSE] ELSE o0
        o2 == IF a.work # NoArg THEN [o1 EXCEPT !.working_dir = a.work] ELSE o1
        o3 == [o2 EXCEPT !.target = a.target]
        o4 == IF a.flog # ""
              THEN [o3 EXCEPT !.log_level_file = code_to_level(a.flog)] ELSE o3
        o5 == IF a.clog # ""
              THEN [o4 EXCEPT !.log_level_console = code_to_level(a.clog)] ELSE o4
    IN  [o5 EXCEPT !.tarball = TRUE]

---------------------------------------------------------------------------
(* The stages, as functions of their arguments and of what the            *)
(* environment answers                                                     *)

StageNames == <<"test_tarball", "test_make", "test_readme", "test_target">>

DirMember(name)  == [isdir |-> TRUE,  name |-> name]
FileMember(name) == [isdir |-> FALSE, name |-> name]

\* archives: unreadable as gzip tar, or a list of members; extraction of
\* a readable archive may still fail
MemberLists ==
    { <<>>,
      <<DirMember(Path(FALSE, <<"proj">>)), FileMember(Path(FALSE, <<"proj", "Makefile">>))>>,
      <<DirMember(Path(TRUE, <<"proj">>))>>,
      <<FileMember(Path(FALSE, <<"Makefile">>))>> }

NoArchive == [readable |-> FALSE, members |-> <<>>, extractOk |-> FALSE]

Archives ==
    {NoArchive}
      \cup [readable : {TRUE}, members : MemberLists, extractOk : BOOLEAN]

\* test_tarball: [project_dir, msgs, extracted]
test_tarball_nocatch(working_dir, arch) ==
    LET first == <<Msg(INFO, "test_tarball", "expanding")>>
        top   == IF arch.members = <<>> THEN FileMember(Path(FALSE, <<>>))
                 ELSE arch.members[1]
        dir   == IF top.isdir THEN join(working_dir, top.name) ELSE working_dir
        note  == IF top.isdir
                 THEN <<Msg(INFO, "test_tarball", "top level is a directory")>>
                 ELSE <<Msg(WARNING, "test_tarball", "top member is not a directory")>>
    IN  IF ~arch.readable
        THEN [project_dir |-> None, extracted |-> FALSE,
              msgs |-> first \o <<Msg(ERROR, "test_tarball", "error expanding")>>]
        ELSE IF ~arch.extractOk
        THEN [project_dir |-> None, extracted |-> FALSE,
              msgs |-> first \o note \o <<Msg(ERROR, "test_tarball", "error expanding")>>]
        ELSE [project_dir |-> dir, extracted |-> TRUE,
              msgs |-> first \o note \o <<Msg(INFO, "test_tarball", "project dir")>>]

test_tarball(working_dir, arch) ==
    LET first == <<Msg(INFO, "test_tarball", "expanding")>>
        top   == arch.members[1]
        dir   == IF top.isdir THEN join(working_dir, top.name) ELSE working_dir
        note  == IF top.isdir
                 THEN <<Msg(INFO, "test_tarball", "top level is a directory")>>
                 ELSE <<Msg(WARNING, "test_tarball", "top member is not a directory")>>
    IN  IF ~arch.readable \/ arch.members = <<>>
        THEN [project_dir |-> None, extracted |-> FALSE,
              msgs |-> first \o <<Msg(ERROR, "test_tarball", "error expanding")>>]
        ELSE IF ~arch.extractOk
        THEN [project_dir |-> None, extracted |-> FALSE,
              msgs |-> first \o note \o <<Msg(ERROR, "test_tarball", "error expanding")>>]
        ELSE [project_dir |-> dir, extracted |-> TRUE,
              msgs |-> first \o note \o <<Msg(INFO, "test_tarball", "project dir")>>]

Unbound == [bound |-> FALSE, returncode |-> 0]
Completed(rc) == [bound |-> TRUE, returncode |-> rc]

\* the five log.print calls of the transcript, all at one level
Transcript(level) ==
    << Msg(level, "test_make", "make returned code"),
       Msg(level, "test_make", "stdout ---"),
       Msg(level, "test_make", "stdout text"),
       Msg(level, "test_make", "stderr ---"),
       Msg(level, "test_make", "stderr text") >>

\* the try block of test_make with its except clause:
\* [cwd, result, return_code, msgs]
test_make_try(dir, project, chdirOk, launchOk, rc) ==
    LET raised == <<Msg(ERROR, "test_make", "error while running make")>>
        inside == abspath(project, dir)
    IN  IF ~chdirOk
        THEN [cwd |-> dir, result |-> Unbound, return_code |-> FALSE,
              msgs |-> raised]
        ELSE IF ~launchOk
        THEN [cwd |-> inside, result |-> Unbound, return_code |-> FALSE,
              msgs |-> <<Msg(INFO, "test_make", "running makefile")>> \o raised]
        ELSE [cwd |-> inside, result |-> Completed(rc), return_code |-> (rc = 0),
              msgs |-> <<Msg(INFO, "test_make", "running makefile")>>
                         \o Transcript(IF rc = 0 THEN INFO ELSE ERROR)]

\* the finally clause: os.chdir(original_cwd)
test_make_stay(original, current) == current

test_make_finally(original, current) == original

CaptureOutcomes == {"both", "stdout_only", "neither"}

\* the second try block and the return: [ret, capture, msgs]
test_make_ignore_write(res, code, written) ==
    [ret |-> code, capture |-> IF res.bound THEN written ELSE "neither",
     msgs |-> <<>>]

test_make_write(res, code, written) ==
    IF ~res.bound
    THEN [ret |-> FALSE, capture |-> "neither",
          msgs |-> <<Msg(ERROR, "test_make", "failed to write stdout or stderr")>>]
    ELSE IF written # "both"
    THEN [ret |-> FALSE, capture |-> written,
          msgs |-> <<Msg(ERROR, "test_make", "failed to write stdout or stderr")>>]
    ELSE [ret |-> code, capture |-> written, msgs |-> <<>>]

ReadmeStats == {"missing", "empty", "nonempty", "oserror"}

test_readme_quiet(stat) == [ret |-> stat = "nonempty", msgs |-> <<>>]

test_readme(stat) ==
    IF stat = "nonempty" THEN [ret |-> TRUE, msgs |-> <<>>]
    ELSE IF stat = "empty"
    THEN [ret |-> FALSE, msgs |-> <<Msg(ERROR, "test_readme", "README.txt is empty")>>]
    ELSE IF stat = "missing"
    THEN [ret |-> FALSE, msgs |-> <<Msg(ERROR, "test_readme", "README.txt not found")>>]
    ELSE [ret |-> FALSE, msgs |-> <<Msg(ERROR, "test_readme", "error checking README.txt")>>]

TargetStats == {"missing", "exists", "oserror"}

test_target(stat) ==
    IF stat = "exists" THEN [ret |-> TRUE, msgs |-> <<>>]
    ELSE IF stat = "missing"
    THEN [ret |-> FALSE, msgs |-> <<Msg(ERROR, "test_target", "target not found")>>]
    ELSE [ret |-> FALSE, msgs |-> <<Msg(ERROR, "test_target", "error checking target")>>]

\* main after a stage returns: go on, or log.error and sys.exit(1)
MainGoesOn(ok, stage, next) ==
    IF ok THEN [pc |-> next, exitCode |-> 0, msgs |-> <<>>]
    ELSE IF stage = "test_make"
    THEN [pc |-> next, exitCode |-> 0, msgs |-> <<Msg(ERROR, "main", stage)>>]
    ELSE [pc |-> "exited", exitCode |-> 1,
          msgs |-> <<Msg(ERROR, "main", stage)>>]

MainExitsZero(ok, stage, next) ==
    IF ok THEN [pc |-> next, exitCode |-> 0, msgs |-> <<>>]
    ELSE [pc |-> "exited", exitCode |-> 0,
          msgs |-> <<Msg(ERROR, "main", stage)>>]

MainAfter(ok, stage, next) ==
    IF ok THEN [pc |-> next, exitCode |-> 0, msgs |-> <<>>]
    ELSE [pc |-> "exited", exitCode |-> 1,
          msgs |-> <<Msg(ERROR, "main", stage)>>]

\* main's "if opts.target:"
TargetGiven(o) == o.target # ""

---------------------------------------------------------------------------
(* The run of checkmake.py *)

Unset == "unset"

NoReturns == [s \in {StageNames[i] : i \in 1..Len(StageNames)} |-> "none"]

Returned(ok) == IF ok THEN "pass" ELSE "fail"

Init ==
    /\ argv \in Argvs
    /\ opts = Options
    /\ pc = "handle_args"
    /\ cwd = CWD
    /\ fs = Fs0
    /\ file_level = INFO
    /\ console_level = WARNING
    /\ fileLog = <<>>
    /\ consoleLog = <<>>
    /\ logCalls = <<>>
    /\ project_dir = None
    /\ stages = <<>>
    /\ ret = NoReturns
    /\ exitCode = 0
    /\ original_cwd = CWD
    /\ result = Unbound
    /\ return_code = FALSE
    /\ capture = Unset
    /\ readme_stat = Unset
    /\ target_stat = Unset
    /\ tar = NoArchive

\* the calls of Log.print an action makes, in order
Logged(msgs) ==
    /\ fileLog' = LogAll(fileLog, file_level, msgs)
    /\ consoleLog' = LogAll(consoleLog, console_level, msgs)
    /\ logCalls' = logCalls \o msgs

NoLog == UNCHANGED <<fileLog, consoleLog, logCalls>>

Exit(code) == pc' = "exited" /\ exitCode' = code

\* handle_args returns the options
HandleArgs ==
    /\ pc = "handle_args"
    /\ ArgsAccepted(argv)
    /\ opts' = handle_args(argv)
    /\ pc' = "check_workdir"
    /\ NoLog
    /\ UNCHANGED <<tar, argv, cwd, fs, file_level, console_level, project_dir,
                   stages, ret, exitCode, original_cwd, result, return_code,
                   capture, readme_stat, target_stat>>

\* handle_args prints the usage error and calls sys.exit(1)
HandleArgsExit ==
    /\ pc = "handle_args"
    /\ ~ArgsAccepted(argv)
    /\ Exit(1)
    /\ NoLog
    /\ UNCHANGED <<tar, argv, opts, cwd, fs, file_level, console_level,
                   project_dir, stages, ret, original_cwd, result,
                   return_code, capture, readme_stat, target_stat>>

\* main: if not path_is_parent(".", opts.working_dir): sys.exit(1)
CheckWorkdir ==
    /\ pc = "check_workdir"
    /\ IF path_is_parent(Path(FALSE, <<".">>), opts.working_dir, cwd)
       THEN pc' = "preclean" /\ UNCHANGED exitCode
       ELSE Exit(1)
    /\ NoLog
    /\ UNCHANGED <<tar, argv, opts, cwd, fs, file_level, console_level,
                   project_dir, stages, ret, original_cwd, result,
                   return_code, capture, readme_stat, target_stat>>

\* main: if not opts.preserve_work: shutil.rmtree(opts.working_dir)
PreClean ==
    /\ pc = "preclean"
    /\ fs' = IF ~opts.preserve_work THEN rmtree(fs, opts.working_dir, cwd) ELSE fs
    /\ pc' = "makedirs"
    /\ NoLog
    /\ UNCHANGED <<tar, argv, opts, cwd, file_level, console_level, project_dir,
                   stages, ret, exitCode, original_cwd, result, return_code,
                   capture, readme_stat, target_stat>>

\* main: os.makedirs(opts.working_dir, exist_ok=True)
MakeDirs ==
    /\ pc = "makedirs"
    /\ fs' = makedirs(fs, opts.working_dir, cwd)
    /\ pc' = "log_init"
    /\ NoLog
    /\ UNCHANGED <<tar, argv, opts, cwd, file_level, console_level, project_dir,
                   stages, ret, exitCode, original_cwd, result, return_code,
                   capture, readme_stat, target_stat>>

\* main: log = Log(...); log.info("Starting the checks")
LogInit ==
    /\ pc = "log_init"
    /\ file_level' = opts.log_level_file
    /\ console_level' = opts.log_level_console
    /\ LET msgs == <<Msg(INFO, "main", "starting the checks")>>
       IN  /\ fileLog' = LogAll(fileLog, opts.log_level_file, msgs)
           /\ consoleLog' = LogAll(consoleLog, opts.log_level_console, msgs)
           /\ logCalls' = logCalls \o msgs
    /\ pc' = "test_tarball"
    /\ UNCHANGED <<tar, argv, opts, cwd, fs, project_dir, stages, ret, exitCode,
                   original_cwd, result, return_code, capture, readme_stat,
                   target_stat>>

\* main: open(opts.log_file, "w") raises; nothing catches it
LogInitRaises ==
    /\ pc = "log_init"
    /\ Exit(1)
    /\ NoLog
    /\ UNCHANGED <<tar, argv, opts, cwd, fs, file_level, console_level,
                   project_dir, stages, ret, original_cwd, result,
                   return_code, capture, readme_stat, target_stat>>

\* main: project_dir = test_tarball(...); exit 1 when it is None
TestTarball ==
    /\ pc = "test_tarball"
    /\ \E arch \in Archives :
         LET r    == test_tarball(opts.working_dir, arch)
             gate == MainAfter(r.project_dir # None, "test_tarball", "test_make")
         IN  /\ tar' = arch
             /\ project_dir' = r.project_dir
             /\ fs' = IF r.extracted
                      THEN makedirs(fs, r.project_dir, cwd) ELSE fs
             /\ stages' = Append(stages, "test_tarball")
             /\ ret' = [ret EXCEPT !["test_tarball"] = Returned(r.project_dir # None)]
             /\ Logged(r.msgs \o gate.msgs)
             /\ pc' = gate.pc
             /\ exitCode' = gate.exitCode
    /\ UNCHANGED <<argv, opts, cwd, file_level, console_level, original_cwd,
                   result, return_code, capture, readme_stat, target_stat>>

\* test_make up to the end of its first try/except
TestMakeTry ==
    /\ pc = "test_make"
    /\ \E chdirOk \in BOOLEAN, launchOk \in BOOLEAN, rc \in 0..MaxRC :
         LET r == test_make_try(cwd, project_dir, chdirOk, launchOk, rc)
         IN  /\ original_cwd' = cwd
             /\ cwd' = r.cwd
             /\ result' = r.result
             /\ return_code' = r.return_code
             /\ Logged(r.msgs)
    /\ stages' = Append(stages, "test_make")
    /\ pc' = "test_make_finally"
    /\ UNCHANGED <<tar, argv, opts, fs, file_level, console_level, project_dir,
                   ret, exitCode, capture, readme_stat, target_stat>>

\* test_make: finally: os.chdir(original_cwd)
TestMakeFinally ==
    /\ pc = "test_make_finally"
    /\ cwd' = test_make_finally(original_cwd, cwd)
    /\ pc' = "test_make_write"
    /\ NoLog
    /\ UNCHANGED <<tar, argv, opts, fs, file_level, console_level, project_dir,
                   stages, ret, exitCode, original_cwd, result, return_code,
                   capture, readme_stat, target_stat>>

\* test_make writes the capture files and returns; main exits 1 on False
TestMakeWrite ==
    /\ pc = "test_make_write"
    /\ \E written \in CaptureOutcomes :
         LET r    == test_make_write(result, return_code, written)
             gate == MainAfter(r.ret, "test_make", "test_readme")
         IN  /\ capture' = r.capture
             /\ ret' = [ret EXCEPT !["test_make"] = Returned(r.ret)]
             /\ Logged(r.msgs \o gate.msgs)
             /\ pc' = gate.pc
             /\ exitCode' = gate.exitCode
    /\ UNCHANGED <<tar, argv, opts, cwd, fs, file_level, console_level,
                   project_dir, stages, original_cwd, result, return_code,
                   readme_stat, target_stat>>

\* main: if not test_readme(log, project_dir): exit 1
TestReadme ==
    /\ pc = "test_readme"
    /\ \E stat \in ReadmeStats :
         LET r    == test_readme(stat)
             gate == MainAfter(r.ret, "test_readme", "test_target")
         IN  /\ readme_stat' = stat
             /\ ret' = [ret EXCEPT !["test_readme"] = Returned(r.ret)]
             /\ Logged(r.msgs \o gate.msgs)
             /\ pc' = gate.pc
             /\ exitCode' = gate.exitCode
    /\ stages' = Append(stages, "test_readme")
    /\ UNCHANGED <<tar, argv, opts, cwd, fs, file_level, console_level,
                   project_dir, original_cwd, result, return_code, capture,
                   target_stat>>

\* main: if opts.target: if not test_target(...): exit 1
TestTarget ==
    /\ pc = "test_target"
    /\ TargetGiven(opts)
    /\ \E stat \in TargetStats :
         LET r    == test_target(stat)
             gate == MainAfter(r.ret, "test_target", "cleanup")
         IN  /\ target_stat' = stat
             /\ ret' = [ret EXCEPT !["test_target"] = Returned(r.ret)]
             /\ Logged(r.msgs \o gate.msgs)
             /\ pc' = gate.pc
             /\ exitCode' = gate.exitCode
    /\ stages' = Append(stages, "test_target")
    /\ UNCHANGED <<tar, argv, opts, cwd, fs, file_level, console_level,
                   project_dir, original_cwd, result, return_code, capture,
                   readme_stat>>

\* main: no target was given, the check is not made
SkipTarget ==
    /\ pc = "test_target"
    /\ ~TargetGiven(opts)
    /\ pc' = "cleanup"
    /\ NoLog
    /\ UNCHANGED <<tar, argv, opts, cwd, fs, file_level, console_level,
                   project_dir, stages, ret, exitCode, original_cwd, result,
                   return_code, capture, readme_stat, target_stat>>

\* main: if not opts.remove_work: shutil.rmtree(opts.working_dir);
\* log.info("Process completed successfully"); the process ends with 0
Cleanup ==
    /\ pc = "cleanup"
    /\ fs' = IF ~opts.remove_work THEN rmtree(fs, opts.working_dir, cwd) ELSE fs
    /\ Logged(<<Msg(INFO, "main", "process completed successfully")>>)
    /\ Exit(0)
    /\ UNCHANGED <<tar, argv, opts, cwd, file_level, console_level, project_dir,
                   stages, ret, original_cwd, result, return_code, capture,
                   readme_stat, target_stat>>

Next ==
    \/ HandleArgs
    \/ HandleArgsExit
    \/ CheckWorkdir
    \/ PreClean
    \/ MakeDirs
    \/ LogInit
    \/ LogInitRaises
    \/ TestTarball
    \/ TestMakeTry
    \/ TestMakeFinally
    \/ TestMakeWrite
    \/ TestReadme
    \/ TestTarget
    \/ SkipTarget
    \/ Cleanup

Spec == Init /\ [][Next]_vars

---------------------------------------------------------------------------
(* The Log class on its own: a logger built with any two thresholds, and  *)
(* print called with any level                                             *)

LogInitApi ==
    /\ argv = [x |-> FALSE, work |-> NoArg, target |-> "", flog |-> "",
               clog |-> "", tarball |-> TRUE]
    /\ opts = Options
    /\ pc = "log_api"
    /\ cwd = CWD
    /\ fs = Fs0
    /\ file_level \in NONE..ALL
    /\ console_level \in NONE..ALL
    /\ fileLog = <<>>
    /\ consoleLog = <<>>
    /\ logCalls = <<>>
    /\ project_dir = None
    /\ stages = <<>>
    /\ ret = NoReturns
    /\ exitCode = 0
    /\ original_cwd = CWD
    /\ result = Unbound
    /\ return_code = FALSE
    /\ capture = Unset
    /\ readme_stat = Unset
    /\ target_stat = Unset
    /\ tar = NoArchive

\* Log.print with a level in NONE..ALL
LogPrintCall ==
    /\ pc = "log_api"
    /\ Len(logCalls) < MaxMsgs
    /\ \E level \in NONE..ALL :
         Logged(<<Msg(level, "caller", "text")>>)
    /\ UNCHANGED <<tar, argv, opts, pc, cwd, fs, file_level, console_level,
                   project_dir, stages, ret, exitCode, original_cwd, result,
                   return_code, capture, readme_stat, target_stat>>

\* Log.print with a level outside NONE..ALL raises ValueError
LogPrintRaises ==
    /\ pc = "log_api"
    /\ \E level \in {NONE - 1, ALL + 1} :
         level < NONE \/ level > ALL
    /\ pc' = "ValueError"
    /\ NoLog
    /\ UNCHANGED <<tar, argv, opts, cwd, fs, file_level, console_level,
                   project_dir, stages, ret, exitCode, original_cwd, result,
                   return_code, capture, readme_stat, target_stat>>

LogNext == LogPrintCall \/ LogPrintRaises

LogSpec == LogInitApi /\ [][LogNext]_vars

---------------------------------------------------------------------------
(* Properties *)

Range(f) == {f[i] : i \in DOMAIN f}

Failed(s) == ret[s] = "fail"

SomeStageFailed == \E s \in Range(StageNames) : Failed(s)

\* handle_args returned and the working directory passed main's check
PastValidation ==
    /\ ArgsAccepted(argv)
    /\ pc \notin {"handle_args", "check_workdir"}
    /\ path_is_parent(Path(FALSE, <<".">>), opts.working_dir, CWD)

RECURSIVE Count(_, _, _)
\* the ERROR records of a log made by `by` ("" counts every author)
Count(log, by, n) ==
    IF n = 0 THEN 0
    ELSE Count(log, by, n - 1)
           + (IF log[n].level = ERROR /\ (by = "" \/ log[n].by = by) THEN 1 ELSE 0)

Errors(by) == Count(logCalls, by, Len(logCalls))

\* C1: main calls the stages in the order test_tarball, test_make,
\* test_readme, test_target; a stage is called only after every earlier one
\* passed; once a stage has failed the process has exited and no later
\* stage was called; test_target is called only with a non-empty target.
C1_StagesInOrderUntilFailure ==
    /\ IsPrefix(stages, StageNames)
    /\ \A i \in 1..Len(stages) : \A j \in 1..(i - 1) : ret[StageNames[j]] = "pass"
    /\ \A i \in 1..Len(StageNames) :
         Failed(StageNames[i]) => pc = "exited" /\ Len(stages) = i
    /\ "test_target" \in Range(stages) => opts.target # ""

\* a failed build: README and target checks were never called
C1_Witness ==
    /\ pc = "exited"
    /\ Failed("test_make")
    /\ stages = <<"test_tarball", "test_make">>
    /\ opts.target # ""

AllStagesSucceeded ==
    /\ project_dir # None
    /\ ret["test_make"] = "pass"
    /\ readme_stat = "nonempty"
    /\ opts.target # "" => target_stat = "exists"

\* C2: once the arguments are parsed, the exit code is 0 exactly when
\* extraction gave a project directory, the build stage passed, README.txt
\* exists with non-zero size and, with a target given, the target exists.
C2_ExitZeroIffAllStagesPass ==
    (pc = "exited" /\ ArgsAccepted(argv)) => (exitCode = 0 <=> AllStagesSucceeded)

\* the self-test's project.tar.gz: a directory-rooted archive, no target
C2_Witness ==
    /\ pc = "exited"
    /\ exitCode = 0
    /\ argv.work = NoArg
    /\ opts.target = ""
    /\ project_dir = Path(FALSE, <<".", "work", "proj">>)

StrictlyInside(parent, child) == IsPrefix(parent, child) /\ child # parent

\* C3: a working directory that resolves to the current directory or to a
\* path outside it makes the process exit non-zero with nothing removed or
\* created.
C3_OutsideWorkdirTouchesNothing ==
    (ArgsAccepted(argv) /\ pc # "handle_args"
       /\ ~StrictlyInside(CWD, abspath(opts.working_dir, CWD)))
    => /\ fs = Fs0
       /\ stages = <<>>
       /\ pc = "exited" => exitCode # 0

\* C4: a run that got past validation ends with the working directory
\* removed exactly when removal was asked for (remove_work), whatever the
\* outcome of the pipeline.
C4_FinalCleanupAsConfigured ==
    (pc = "exited" /\ PastValidation)
    => (abspath(opts.working_dir, CWD) \notin fs <=> opts.remove_work)

\* C6: without -x the working directory found at the start and its
\* contents are still there when main has done its start-up clean.
C6_KeptWithoutX ==
    (pc = "makedirs" /\ ~argv.x) => Fs0 \subseteq fs

\* C5 as stated: a failed stage leaves exactly one ERROR entry.
C5_ExactlyOneErrorEntry ==
    (pc = "exited" /\ SomeStageFailed) => Errors("") = 1

\* C5 as amended: a failed stage leaves at least one ERROR entry made by
\* the stage function itself (the reason) and exactly one made by main,
\* naming the stage, which is the last entry before the process exits; no
\* other function makes an ERROR entry.
C5_StageErrorThenMainError ==
    \A s \in Range(StageNames) :
      (pc = "exited" /\ Failed(s))
      => /\ Errors(s) >= 1
         /\ Errors("main") = 1
         /\ Errors("") = Errors(s) + 1
         /\ logCalls[Len(logCalls)] = Msg(ERROR, "main", s)

\* README.txt is there but empty
C5_Witness ==
    /\ pc = "exited"
    /\ Failed("test_readme")
    /\ readme_stat = "empty"
    /\ Errors("") = 2

C8_CwdRestored ==
    (pc = "test_make_write" \/ ret["test_make"] # "none")
    => (cwd = original_cwd /\ cwd = CWD)

\* the project directory was entered and make could not be launched
C8_Witness ==
    /\ Failed("test_make")
    /\ ~result.bound
    /\ \E i \in DOMAIN logCalls : logCalls[i].tag = "running makefile"
    /\ cwd = CWD

Extractable(a) == a.readable /\ a.members # <<>> /\ a.extractOk

\* C9: test_tarball returns working_dir joined with the first member's
\* name when that member is a directory, working_dir when it is not, and
\* None (main then logs and exits 1) when the archive is unreadable, has
\* no members or fails to extract.
C9_TarballProjectDir ==
    ret["test_tarball"] # "none"
    => IF Extractable(tar)
       THEN LET top == tar.members[1]
                wd  == opts.working_dir
            IN  /\ ret["test_tarball"] = "pass"
                /\ project_dir =
                     (IF ~top.isdir THEN wd
                      ELSE IF top.name.abs THEN top.name
                      ELSE Path(wd.abs, wd.comps \o top.name.comps))
       ELSE /\ project_dir = None
            /\ Failed("test_tarball")
            /\ pc = "exited"
            /\ exitCode = 1
            /\ logCalls[Len(logCalls)] = Msg(ERROR, "main", "test_tarball")

\* an archive with zero members
C9_Witness ==
    /\ Failed("test_tarball")
    /\ tar.readable
    /\ tar.members = <<>>
    /\ project_dir = None

AtMost(threshold, msg) == msg.level <= threshold

\* C10: the log file holds exactly the printed messages whose level is
\* <= the file threshold, the console exactly those whose level is <= the
\* console threshold, each in call order.
C10_SinksFilterByThreshold ==
    LET ForFile(m)    == AtMost(file_level, m)
        ForConsole(m) == AtMost(console_level, m)
    IN  /\ fileLog = SelectSeq(logCalls, ForFile)
        /\ consoleLog = SelectSeq(logCalls, ForConsole)

\* a message at the file threshold exactly, above the console threshold
C10_Witness ==
    /\ pc = "log_api"
    /\ Len(logCalls) = 1
    /\ logCalls[1].level = file_level
    /\ logCalls[1].level > console_level
    /\ fileLog = logCalls
    /\ consoleLog = <<>>

====
